---------------------------- MODULE Spec2Model ----------------------------
(***************************************************************************)
(* Legal argument evaluation pipeline of law-base:                         *)
(*   StrategySuggestionEngine  (backend/strategy/suggestion_engine.py)     *)
(*   PointWeighting            (backend/weighting/point_weighting.py)      *)
(*   CaseAnalysis              (backend/analysis/case_analysis.py)         *)
(*   WeaknessAnalysis          (backend/weakness/analysis.py)              *)
(*   DualPerspectiveAnalysis   (backend/dual_perspective.py)               *)
(*                                                                         *)
(* Floating point scores are modelled as exact rationals: every quantity   *)
(* is an integer numerator over a fixed denominator named next to the      *)
(* component that uses it.                                                 *)
(***************************************************************************)
EXTENDS Integers, Sequences, FiniteSets, TLC

VARIABLES
    strategy_call,      \* the last call made on the StrategySuggestionEngine
    strategies,         \* the strategies that call returned
    evaluated_strength, \* the strength that call returned
    current_year,       \* datetime.now().year
    weight_case,        \* the case passed to PointWeighting.weight_points
    weights,            \* the outcome of that call
    first_call,         \* history: the outcome of the first weight_points call on
                        \* the case and the year it was made in
    case_data,          \* the case passed to CaseAnalysis._calculate_relevance
    relevance,          \* the outcome of that call
    precedential_value, \* the outcome of CaseAnalysis._analyze_precedential_value
    prediction,         \* the outcome of CaseAnalysis._predict_outcome
    case_analysis,      \* the outcome of CaseAnalysis.analyze
    prosecution_track,  \* DualPerspectiveAnalysis.prosecution_track
    defense_track,      \* DualPerspectiveAnalysis.defense_track
    shared_facts,       \* DualPerspectiveAnalysis.shared_facts
    disputed_facts,     \* DualPerspectiveAnalysis.disputed_facts
    add_calls,          \* history: the number of calls of each add operation
    summary,            \* the outcome of get_summary
    links,              \* history: which comparison appended which counter argument
    last_add,           \* history: the latest add operation and how it ended
    arguments,          \* the list passed to WeaknessAnalysis.analyze
    weaknesses,         \* the list that call returned
    emitted,            \* history: the weaknesses appended during that call
    logic,              \* the outcome of WeaknessAnalysis._analyze_logic on the
                        \* first argument of the list
    scrape_result,      \* what LegalScraper.scrape returned to process_case
    report,             \* the outcome of LegalAnalysisIntegrator.process_case
    stages,             \* history: the stages process_case entered, in order
    pc                  \* "call": the call is being made, "done": it has ended
                        \* (CaseAnalysis: "done" after _calculate_relevance,
                        \* "valued" after _analyze_precedential_value, "predicted"
                        \* after _predict_outcome, "analyzed" after analyze)

strategyVars == <<strategy_call, strategies, evaluated_strength>>
weightVars == <<weight_case, weights, first_call>>
relevanceVars == <<case_data, relevance, precedential_value, prediction, case_analysis>>
dualVars == <<prosecution_track, defense_track, shared_facts, disputed_facts,
              add_calls, summary, links, last_add>>
weaknessVars == <<arguments, weaknesses, emitted, logic>>
integrationVars == <<scrape_result, report, stages>>
vars == <<strategyVars, current_year, weightVars, relevanceVars, dualVars, weaknessVars,
          integrationVars, pc>>

(***************************************************************************)
(* Generic helpers                                                         *)
(***************************************************************************)

\* dict.get(key, default)
Get(d, k, default) == IF k \in DOMAIN d THEN d[k] ELSE default

\* every dict over a subset of keys with values in vals
Dicts(keys, vals) == UNION { [K -> vals] : K \in SUBSET keys }

\* sorted(s, key=..., reverse=True), key[i] being the key of s[i]: descending
\* by key, and stable (elements with equal keys keep the order they have in s)
SortedReverse(s, key) ==
    LET Rank(i) == 1 + Cardinality({ j \in 1..Len(s) :
                          \/ key[j] > key[i]
                          \/ key[j] = key[i] /\ j < i })
    IN  [ p \in 1..Len(s) |-> s[CHOOSE i \in 1..Len(s) : Rank(i) = p] ]

Min(a, b) == IF a <= b THEN a ELSE b
Max(a, b) == IF a >= b THEN a ELSE b

\* the outcome of a call: a returned value or a raised exception
Returned(v) == [status |-> "returned", value |-> v]
Raised(e) == [status |-> "raised", error |-> e]
NotCalled == [status |-> "none"]

(***************************************************************************)
(* Dates.  A date string is modelled by its three numeric fields and the   *)
(* separator written between them; None is the value the scraper stores    *)
(* when the page has no date.                                              *)
(***************************************************************************)
DateStr(y, sep, m, d) == [py |-> "str", y |-> y, sep |-> sep, m |-> m, d |-> d]
None == [py |-> "None"]

IsLeap(y) == (y % 4 = 0 /\ y % 100 # 0) \/ y % 400 = 0
DaysInMonth(y, m) ==
    IF m = 2 THEN (IF IsLeap(y) THEN 29 ELSE 28)
    ELSE IF m \in {4, 6, 9, 11} THEN 30 ELSE 31

\* datetime.strptime(v, "%Y-%m-%d").year
strptime_year(v) ==
    IF v.py # "str" THEN Raised("TypeError")
    ELSE IF /\ v.sep = "-"
            /\ v.y \in 1..9999
            /\ v.m \in 1..12
            /\ v.d \in 1..DaysInMonth(v.y, v.m)
         THEN Returned(v.y)
         ELSE Raised("ValueError")

ThisYear == 2026
ClockYears == {ThisYear}

(***************************************************************************)
(* StrategySuggestionEngine.  A score of 1.0 is StrategyOne; the analysis   *)
(* scores are given in tenths.                                             *)
(***************************************************************************)

StrategyOne == 240
FromTenths(v) == (StrategyOne \div 10) * v

StrategyType == {"AGGRESSIVE", "DEFENSIVE", "BALANCED", "PRECEDENT_FOCUSED", "POLICY_BASED"}

Strategy(t, p, sp) == [type |-> t, priority |-> p, success_probability |-> sp]

evaluate_case_strength_default_zero(analysis) ==
    ( FromTenths(Get(analysis, "evidence_score", 0))
    + FromTenths(Get(analysis, "precedent_score", 0))
    + FromTenths(Get(analysis, "coherence_score", 0)) ) \div 3

evaluate_case_strength(analysis) ==
    ( FromTenths(Get(analysis, "evidence_score", 5))
    + FromTenths(Get(analysis, "precedent_score", 5))
    + FromTenths(Get(analysis, "coherence_score", 5)) ) \div 3

evaluate_opposition_strength(analysis) ==
    ( FromTenths(Get(analysis, "counter_argument_strength", 5))
    + FromTenths(Get(analysis, "opposing_evidence_strength", 5)) ) \div 2

generate_primary_strategy_wrong_boundary(case_strength, opposition_strength) ==
    IF case_strength >= FromTenths(7) /\ opposition_strength < FromTenths(5)
    THEN Strategy("AGGRESSIVE", 1, case_strength)
    ELSE IF opposition_strength > FromTenths(7)
    THEN Strategy("DEFENSIVE", 1, StrategyOne - opposition_strength)
    ELSE Strategy("BALANCED", 1,
                  (case_strength + (StrategyOne - opposition_strength)) \div 2)

generate_primary_strategy(case_strength, opposition_strength) ==
    IF case_strength > FromTenths(7) /\ opposition_strength < FromTenths(5)
    THEN Strategy("AGGRESSIVE", 1, case_strength)
    ELSE IF opposition_strength > FromTenths(7)
    THEN Strategy("DEFENSIVE", 1, StrategyOne - opposition_strength)
    ELSE Strategy("BALANCED", 1,
                  (case_strength + (StrategyOne - opposition_strength)) \div 2)

generate_supplementary_strategies_as_primary(analysis) ==
    IF FromTenths(Get(analysis, "precedent_score", 0)) > FromTenths(7)
    THEN << Strategy("PRECEDENT_FOCUSED", 1, FromTenths(analysis["precedent_score"])) >>
    ELSE << >>

generate_supplementary_strategies_at_threshold(analysis) ==
    IF FromTenths(Get(analysis, "precedent_score", 0)) >= FromTenths(7)
    THEN << Strategy("PRECEDENT_FOCUSED", 2, FromTenths(analysis["precedent_score"])) >>
    ELSE << >>

generate_supplementary_strategies(analysis) ==
    IF FromTenths(Get(analysis, "precedent_score", 0)) > FromTenths(7)
    THEN << Strategy("PRECEDENT_FOCUSED", 2, FromTenths(analysis["precedent_score"])) >>
    ELSE << >>

suggest(analysis) ==
    LET case_strength == evaluate_case_strength(analysis)
        opposition_strength == evaluate_opposition_strength(analysis)
        primary_strategy == generate_primary_strategy(case_strength, opposition_strength)
        supplementary == generate_supplementary_strategies(analysis)
        unsorted == <<primary_strategy>> \o supplementary
    IN  SortedReverse(unsorted, [i \in 1..Len(unsorted) |-> unsorted[i].priority])

\* inputs
AnalysisKeys == {"evidence_score", "precedent_score", "coherence_score",
                 "counter_argument_strength", "opposing_evidence_strength"}
ScoreTenths == {0, 4, 7, 8, 10}
Analyses == Dicts(AnalysisKeys, ScoreTenths)
Strengths == { FromTenths(t) : t \in 0..10 }

StrategyCalls ==
    { [op |-> "_generate_primary_strategy", case_strength |-> cs, opposition_strength |-> os]
        : cs \in Strengths, os \in Strengths }
    \cup { [op |-> "suggest", analysis |-> a] : a \in Analyses }
    \cup { [op |-> "_evaluate_case_strength", analysis |-> a] : a \in Analyses }
    \cup { [op |-> "_evaluate_opposition_strength", analysis |-> a] : a \in Analyses }

\* the components that a specification does not exercise stay as constructed
StrategyIdle == strategy_call = [op |-> "none"] /\ strategies = << >> /\ evaluated_strength = NotCalled
WeightIdle == weight_case = << >> /\ weights = NotCalled /\ first_call = NotCalled
RelevanceIdle ==
    /\ case_data = << >>
    /\ relevance = NotCalled
    /\ precedential_value = NotCalled
    /\ prediction = NotCalled
    /\ case_analysis = NotCalled
WeaknessIdle ==
    arguments = << >> /\ weaknesses = << >> /\ emitted = << >> /\ logic = NotCalled
IntegrationIdle == scrape_result = NotCalled /\ report = NotCalled /\ stages = << >>
DualIdle ==
    /\ prosecution_track = << >>
    /\ defense_track = << >>
    /\ shared_facts = << >>
    /\ disputed_facts = << >>
    /\ add_calls = [prosecution |-> 0, defense |-> 0, shared |-> 0, disputed |-> 0]
    /\ summary = NotCalled
    /\ links = {}
    /\ last_add = NotCalled

\* a fresh engine and one call about to be made on it
StrategyInit ==
    /\ strategy_call \in StrategyCalls
    /\ strategies = << >>
    /\ evaluated_strength = NotCalled
    /\ pc = "call"
    /\ current_year \in ClockYears
    /\ IntegrationIdle
    /\ WeightIdle
    /\ RelevanceIdle
    /\ DualIdle
    /\ WeaknessIdle

\* the call _generate_primary_strategy(case_strength, opposition_strength) returns
GeneratePrimaryStrategy ==
    /\ pc = "call"
    /\ strategy_call.op = "_generate_primary_strategy"
    /\ pc' = "done"
    /\ strategies' = << generate_primary_strategy(strategy_call.case_strength,
                                                  strategy_call.opposition_strength) >>
    /\ UNCHANGED <<strategy_call, evaluated_strength>>
    /\ UNCHANGED <<current_year, weightVars, relevanceVars, dualVars, weaknessVars,
                   integrationVars>>

\* the call suggest(analysis_results) returns
Suggest ==
    /\ pc = "call"
    /\ strategy_call.op = "suggest"
    /\ pc' = "done"
    /\ strategies' = suggest(strategy_call.analysis)
    /\ UNCHANGED <<strategy_call, evaluated_strength>>
    /\ UNCHANGED <<current_year, weightVars, relevanceVars, dualVars, weaknessVars,
                   integrationVars>>

\* the call _evaluate_case_strength(analysis) returns
EvaluateCaseStrength ==
    /\ pc = "call"
    /\ strategy_call.op = "_evaluate_case_strength"
    /\ pc' = "done"
    /\ evaluated_strength' = Returned(evaluate_case_strength(strategy_call.analysis))
    /\ UNCHANGED <<strategy_call, strategies>>
    /\ UNCHANGED <<current_year, weightVars, relevanceVars, dualVars, weaknessVars,
                   integrationVars>>

\* the call _evaluate_opposition_strength(analysis) returns
EvaluateOppositionStrength ==
    /\ pc = "call"
    /\ strategy_call.op = "_evaluate_opposition_strength"
    /\ pc' = "done"
    /\ evaluated_strength' = Returned(evaluate_opposition_strength(strategy_call.analysis))
    /\ UNCHANGED <<strategy_call, strategies>>
    /\ UNCHANGED <<current_year, weightVars, relevanceVars, dualVars, weaknessVars,
                   integrationVars>>

StrategyNext ==
    \/ GeneratePrimaryStrategy
    \/ Suggest
    \/ EvaluateCaseStrength
    \/ EvaluateOppositionStrength

SpecStrategy == StrategyInit /\ [][StrategyNext]_vars

(***************************************************************************)
(* C1: _generate_primary_strategy returns the strategy of the first        *)
(* matching rule: AGGRESSIVE with probability case_strength when           *)
(* case_strength > 0.7 and opposition_strength < 0.5, else DEFENSIVE with  *)
(* 1 - opposition_strength when opposition_strength > 0.7, else BALANCED   *)
(* with (case_strength + 1 - opposition_strength) / 2; (0.8, 0.3) is       *)
(* AGGRESSIVE 0.8, (0.4, 0.8) is DEFENSIVE 0.2, and the boundary values    *)
(* 0.7 and 0.5 fall through to the later rules.                            *)
(***************************************************************************)
C1_PrimaryRule ==
    (strategy_call.op = "_generate_primary_strategy" /\ pc = "done") =>
        LET cs == strategy_call.case_strength
            os == strategy_call.opposition_strength
            s  == strategies[1]
        IN  /\ Len(strategies) = 1
            /\ s.priority = 1
            /\ (10 * cs > 7 * StrategyOne /\ 10 * os < 5 * StrategyOne)
                 => s.type = "AGGRESSIVE" /\ s.success_probability = cs
            /\ (~(10 * cs > 7 * StrategyOne /\ 10 * os < 5 * StrategyOne)
                  /\ 10 * os > 7 * StrategyOne)
                 => s.type = "DEFENSIVE" /\ s.success_probability + os = StrategyOne
            /\ (~(10 * cs > 7 * StrategyOne /\ 10 * os < 5 * StrategyOne)
                  /\ ~(10 * os > 7 * StrategyOne))
                 => s.type = "BALANCED"
                    /\ 2 * s.success_probability = cs + StrategyOne - os
            /\ (10 * cs = 8 * StrategyOne /\ 10 * os = 3 * StrategyOne)
                 => s.type = "AGGRESSIVE" /\ 10 * s.success_probability = 8 * StrategyOne
            /\ (10 * cs = 4 * StrategyOne /\ 10 * os = 8 * StrategyOne)
                 => s.type = "DEFENSIVE" /\ 10 * s.success_probability = 2 * StrategyOne
            /\ (10 * cs = 7 * StrategyOne \/ 10 * os = 5 * StrategyOne)
                 => s.type # "AGGRESSIVE"
            /\ (10 * os = 7 * StrategyOne) => s.type # "DEFENSIVE"

\* the boundary call (0.7, 0.3) has been made and fell through to BALANCED
C1_Witness ==
    /\ strategy_call.op = "_generate_primary_strategy"
    /\ pc = "done"
    /\ 10 * strategy_call.case_strength = 7 * StrategyOne
    /\ 10 * strategy_call.opposition_strength = 3 * StrategyOne
    /\ strategies[1].type = "BALANCED"

(***************************************************************************)
(* C2: the sequence returned by suggest has the primary strategy (the one  *)
(* with priority 1) as its first element, also when PRECEDENT_FOCUSED is   *)
(* emitted.                                                                *)
(***************************************************************************)
C2_PrimaryFirst ==
    (strategy_call.op = "suggest" /\ pc = "done") => strategies[1].priority = 1

\* the positions of the returned strategies that are not the primary kind
PrimaryTypes == {"AGGRESSIVE", "DEFENSIVE", "BALANCED"}
WithPriority(p) == { i \in 1..Len(strategies) : strategies[i].priority = p }
OfType(t) == { i \in 1..Len(strategies) : strategies[i].type = t }

(***************************************************************************)
(* C15: the result of suggest contains exactly one strategy with priority  *)
(* 1, its type is AGGRESSIVE, DEFENSIVE or BALANCED, and every other       *)
(* strategy of the result is a supplementary one ranked lower, that is,    *)
(* not of a primary type and with a priority number greater than 1.  (The  *)
(* position in the list is the subject of C2.)                             *)
(***************************************************************************)
C15_ExactlyOnePrimary ==
    (strategy_call.op = "suggest" /\ pc = "done") =>
        /\ Cardinality(WithPriority(1)) = 1
        /\ \A i \in WithPriority(1) : strategies[i].type \in PrimaryTypes
        /\ \A i \in (1..Len(strategies)) \ WithPriority(1) :
              /\ strategies[i].type \in StrategyType \ PrimaryTypes
              /\ strategies[i].priority > 1

\* suggest returned a primary and a supplementary strategy
C15_Witness ==
    /\ strategy_call.op = "suggest"
    /\ pc = "done"
    /\ Len(strategies) = 2
    /\ Cardinality(WithPriority(1)) = 1
    /\ Cardinality(WithPriority(2)) = 1

(***************************************************************************)
(* C16: suggest emits a PRECEDENT_FOCUSED strategy if and only if the      *)
(* analysis contains precedent_score strictly greater than 0.7 (absent or  *)
(* exactly 0.7 emits none); it has priority 2 and success_probability      *)
(* precedent_score, and at most one strategy besides the primary is        *)
(* returned.                                                               *)
(***************************************************************************)
C16_PrecedentFocusedRule ==
    (strategy_call.op = "suggest" /\ pc = "done") =>
        LET analysis == strategy_call.analysis
        IN  /\ (OfType("PRECEDENT_FOCUSED") # {}) <=>
                  ("precedent_score" \in DOMAIN analysis /\ analysis["precedent_score"] > 7)
            /\ \A i \in OfType("PRECEDENT_FOCUSED") :
                  /\ strategies[i].priority = 2
                  /\ 10 * strategies[i].success_probability
                       = analysis["precedent_score"] * StrategyOne
            /\ Cardinality({ i \in 1..Len(strategies) :
                               strategies[i].type \notin PrimaryTypes }) <= 1
            /\ Len(strategies) <= 2

\* precedent_score 0.8: PRECEDENT_FOCUSED was emitted with probability 0.8
C16_Witness ==
    /\ strategy_call.op = "suggest"
    /\ pc = "done"
    /\ "precedent_score" \in DOMAIN strategy_call.analysis
    /\ strategy_call.analysis["precedent_score"] = 8
    /\ \E i \in OfType("PRECEDENT_FOCUSED") :
          10 * strategies[i].success_probability = 8 * StrategyOne

\* the score of the analysis in tenths, 0.5 when absent
ScoreOrHalf(analysis, k) == IF k \in DOMAIN analysis THEN analysis[k] ELSE 5

(***************************************************************************)
(* C18: the case strength is the mean of evidence_score, precedent_score   *)
(* and coherence_score, the opposition strength the mean of                *)
(* counter_argument_strength and opposing_evidence_strength, an absent     *)
(* score counting as 0.5; with all provided scores in [0,1], both          *)
(* strengths and the success_probability of every strategy returned by     *)
(* suggest are in [0,1].                                                   *)
(***************************************************************************)
C18_StrengthsAreMeans ==
    /\ (strategy_call.op = "_evaluate_case_strength" /\ pc = "done") =>
          /\ 30 * evaluated_strength.value
               = StrategyOne * ( ScoreOrHalf(strategy_call.analysis, "evidence_score")
                               + ScoreOrHalf(strategy_call.analysis, "precedent_score")
                               + ScoreOrHalf(strategy_call.analysis, "coherence_score") )
          /\ evaluated_strength.value \in 0..StrategyOne
    /\ (strategy_call.op = "_evaluate_opposition_strength" /\ pc = "done") =>
          /\ 20 * evaluated_strength.value
               = StrategyOne
                 * ( ScoreOrHalf(strategy_call.analysis, "counter_argument_strength")
                   + ScoreOrHalf(strategy_call.analysis, "opposing_evidence_strength") )
          /\ evaluated_strength.value \in 0..StrategyOne
    /\ (strategy_call.op = "suggest" /\ pc = "done") =>
          \A i \in 1..Len(strategies) :
              strategies[i].success_probability \in 0..StrategyOne

\* only evidence_score is given, 0.8: the strength is (0.8 + 0.5 + 0.5) / 3
C18_Witness ==
    /\ strategy_call.op = "_evaluate_case_strength"
    /\ pc = "done"
    /\ strategy_call.analysis = [k \in {"evidence_score"} |-> 8]
    /\ 10 * evaluated_strength.value = 6 * StrategyOne

(***************************************************************************)
(* PointWeighting.  The four table-driven factors are in hundredths; the   *)
(* temporal factor 0.98 ** years_diff is the exact fraction num / den.     *)
(* A weight vector maps each factor to the fraction num / den.             *)
(***************************************************************************)
Factors == {"relevance", "citation_frequency", "court_hierarchy",
            "case_outcome_impact", "temporal_relevance"}

court_hierarchy_weights ==
    [c \in {"Supreme Court", "Circuit Court", "District Court", "State Supreme Court",
            "State Appellate Court", "State Trial Court"} |->
        CASE c = "Supreme Court" -> 100
          [] c = "Circuit Court" -> 80
          [] c = "District Court" -> 60
          [] c = "State Supreme Court" -> 70
          [] c = "State Appellate Court" -> 50
          [] c = "State Trial Court" -> 40]

time_decay_factor == 98
citation_threshold == 50

RECURSIVE Pow(_, _)
Pow(b, n) == IF n = 0 THEN 1 ELSE b * Pow(b, n - 1)

calculate_relevance_weight(case) ==
    LET fromKeywords == IF "keywords" \in DOMAIN case
                        THEN Len(case["keywords"]) * 10 ELSE 0
        fromContext == IF "context_similarity" \in DOMAIN case
                       THEN case["context_similarity"] * 5 ELSE 0
    IN  Min(fromKeywords + fromContext, 100)

calculate_citation_weight(case) ==
    Min((Get(case, "citation_count", 0) * 100) \div citation_threshold, 100)

calculate_hierarchy_weight(case) ==
    Get(court_hierarchy_weights, Get(case, "court_type", "District Court"), 40)

calculate_outcome_impact(case) ==
      (IF Get(case, "precedent_setting", FALSE) THEN 30 ELSE 0)
    + (IF Get(case, "overturned_previous", FALSE) THEN 20 ELSE 0)
    + (IF Get(case, "widely_cited", FALSE) THEN 20 ELSE 0)
    + (IF Get(case, "current_relevance", FALSE) THEN 30 ELSE 0)

\* 0.98 ** years_diff as a fraction; strptime is not guarded
calculate_temporal_weight(case, now) ==
    IF "date" \notin DOMAIN case THEN Returned([num |-> 1, den |-> 2])
    ELSE LET parsed == strptime_year(case["date"])
         IN  IF parsed.status = "raised" THEN parsed
             ELSE LET years_diff == now - parsed.value
                  IN  IF years_diff >= 0
                      THEN Returned([num |-> Pow(time_decay_factor, years_diff),
                                     den |-> Pow(100, years_diff)])
                      ELSE Returned([num |-> Pow(100, -years_diff),
                                     den |-> Pow(time_decay_factor, -years_diff)])

\* the five raw scores over the common denominator 100 * t.den, each divided
\* by their sum
weight_points(case, now) ==
    LET temporal == calculate_temporal_weight(case, now)
    IN  IF temporal.status = "raised" THEN temporal
        ELSE LET t == temporal.value
                 raw == [f \in Factors |->
                           CASE f = "relevance" -> calculate_relevance_weight(case) * t.den
                             [] f = "citation_frequency" -> calculate_citation_weight(case) * t.den
                             [] f = "court_hierarchy" -> calculate_hierarchy_weight(case) * t.den
                             [] f = "case_outcome_impact" -> calculate_outcome_impact(case) * t.den
                             [] f = "temporal_relevance" -> 100 * t.num]
                 total_weight == raw["relevance"] + raw["citation_frequency"]
                                 + raw["court_hierarchy"] + raw["case_outcome_impact"]
                                 + raw["temporal_relevance"]
             IN  IF total_weight = 0 THEN Raised("ZeroDivisionError")
                 ELSE Returned([f \in Factors |-> [num |-> raw[f], den |-> total_weight]])

\* inputs
KeywordLists == { << >>, <<"tort", "duty">>, <<"a", "b", "c", "d", "e", "f">> }
ContextSimilarities == {0, 4, 10}
CitationCounts == {-50, 0, 25, 80}
CourtTypes == {"Supreme Court", "State Appellate Court", "State Trial Court", "Tribal Court"}
WeightDates == { DateStr(ThisYear - 2, "-", 1, 1), DateStr(ThisYear, "-", 6, 15),
                 DateStr(ThisYear + 1, "-", 3, 1), DateStr(ThisYear - 2, "/", 1, 1),
                 DateStr(ThisYear - 2, "-", 13, 1) }

OptionalField(k, vals) == { << >> } \cup { [x \in {k} |-> v] : v \in vals }

\* the union of dicts with disjoint keys
Merge(d1, d2) ==
    [k \in DOMAIN d1 \cup DOMAIN d2 |-> IF k \in DOMAIN d1 THEN d1[k] ELSE d2[k]]

WeightCases ==
    { Merge(kw, Merge(cs, Merge(cc, Merge(ct, Merge(fl, dt))))) :
        kw \in OptionalField("keywords", KeywordLists),
        cs \in OptionalField("context_similarity", ContextSimilarities),
        cc \in OptionalField("citation_count", CitationCounts),
        ct \in OptionalField("court_type", CourtTypes),
        fl \in Dicts({"precedent_setting", "widely_cited"}, {TRUE}),
        dt \in OptionalField("date", WeightDates) }

WeightInit ==
    /\ weight_case \in WeightCases
    /\ weights = NotCalled
    /\ first_call = NotCalled
    /\ pc = "call"
    /\ current_year \in ClockYears
    /\ IntegrationIdle
    /\ StrategyIdle
    /\ RelevanceIdle
    /\ DualIdle
    /\ WeaknessIdle

\* the first call weight_points(case) ends
WeightPoints ==
    /\ pc = "call"
    /\ pc' = "done"
    /\ weights' = weight_points(weight_case, current_year)
    /\ first_call' = [status |-> "called", outcome |-> weights', year |-> current_year]
    /\ UNCHANGED <<weight_case, current_year, strategyVars, relevanceVars, dualVars, weaknessVars,
                   integrationVars>>

\* between two calls the clock moves to a later year
LaterYears == {ThisYear + 1}

NewYear ==
    /\ pc = "done"
    /\ current_year' \in { y \in LaterYears : y > current_year }
    /\ UNCHANGED <<pc, weightVars, strategyVars, relevanceVars, dualVars, weaknessVars,
                   integrationVars>>

\* weight_points setting the defaults it reads into the case
WeightPointsAgain_setting_defaults ==
    /\ pc = "done"
    /\ pc' = "again"
    /\ weights' = weight_points(weight_case, current_year)
    /\ weight_case' = Merge(weight_case, [k \in {"court_type"} \ DOMAIN weight_case |->
                                            "District Court"])
    /\ UNCHANGED <<first_call, current_year, strategyVars, relevanceVars, dualVars, weaknessVars,
                   integrationVars>>

\* the second call weight_points(case) on the same case ends
WeightPointsAgain ==
    /\ pc = "done"
    /\ pc' = "again"
    /\ weights' = weight_points(weight_case, current_year)
    /\ UNCHANGED <<weight_case, first_call>>
    /\ UNCHANGED <<current_year, strategyVars, relevanceVars, dualVars, weaknessVars,
                   integrationVars>>

WeightNext == WeightPoints \/ NewYear \/ WeightPointsAgain

SpecWeighting == WeightInit /\ [][WeightNext]_vars

(***************************************************************************)
(* C3: for every case record, weight_points returns a vector over the five *)
(* factors whose values sum to 1.0 and none of which is negative.          *)
(***************************************************************************)
C3_Normalized ==
    pc = "done" =>
        /\ weights.status = "returned"
        /\ DOMAIN weights.value = Factors
        /\ \A f \in Factors : weights.value[f].den = weights.value["relevance"].den
        /\ weights.value["relevance"].den # 0
        /\ weights.value["relevance"].num + weights.value["citation_frequency"].num
             + weights.value["court_hierarchy"].num + weights.value["case_outcome_impact"].num
             + weights.value["temporal_relevance"].num = weights.value["relevance"].den
        /\ \A f \in Factors :
              \/ weights.value[f].num = 0
              \/ (weights.value[f].num > 0) = (weights.value[f].den > 0)

\* the case has a date that strptime does not accept
HasMalformedDate(case) ==
    /\ "date" \in DOMAIN case
    /\ strptime_year(case["date"]).status = "raised"

\* the case without its date
WithoutDate(case) == [k \in DOMAIN case \ {"date"} |-> case[k]]

(***************************************************************************)
(* C13: weight_points never raises on a malformed date: a case whose date  *)
(* is present but not parseable as YYYY-MM-DD gets the weight vector of    *)
(* the same case with no date (temporal raw score 0.5).                    *)
(***************************************************************************)
C13_MalformedDateIsAbsentDate ==
    (pc \in {"done", "again"} /\ HasMalformedDate(weight_case)) =>
        /\ weights.status = "returned"
        /\ weights = weight_points(WithoutDate(weight_case), current_year)

\* the five raw scores of the case sum to 0
RawScoresSumToZero(case, now) ==
    LET temporal == calculate_temporal_weight(case, now)
    IN  /\ temporal.status = "returned"
        /\ (calculate_relevance_weight(case) + calculate_citation_weight(case)
              + calculate_hierarchy_weight(case) + calculate_outcome_impact(case))
             * temporal.value.den
           + 100 * temporal.value.num = 0

(***************************************************************************)
(* C14: weight_points never divides by zero: whenever the five raw scores  *)
(* sum to 0 it returns the weight 0.2 for each of the five factors.        *)
(***************************************************************************)
C14_ZeroSumGivesEqualWeights ==
    (pc \in {"done", "again"} /\ RawScoresSumToZero(weight_case, current_year)) =>
        /\ weights.status = "returned"
        /\ DOMAIN weights.value = Factors
        /\ \A f \in Factors : 5 * weights.value[f].num = weights.value[f].den

RelevanceOne == 300

precedent_weight ==
    [c \in {"Supreme Court", "Circuit Court", "District Court"} |->
        CASE c = "Supreme Court" -> 100
          [] c = "Circuit Court" -> 80
          [] c = "District Court" -> 60]

\* only ValueError is caught
extract_year(date_str, now) ==
    LET parsed == strptime_year(date_str)
    IN  IF parsed.status = "raised" /\ parsed.error = "ValueError"
        THEN Returned(now)
        ELSE parsed

calculate_time_weight(year, now) ==
    LET years_diff == now - year
    IN  Max(10, 100 - years_diff * 5)

calculate_relevance_uncapped(case, now) ==
    IF "metadata" \notin DOMAIN case THEN Raised("KeyError")
    ELSE
    LET metadata == case["metadata"]
        year == IF "date" \in DOMAIN metadata
                THEN extract_year(metadata["date"], now)
                ELSE Returned(now)
        time == IF "date" \in DOMAIN metadata /\ year.status = "returned"
                THEN calculate_time_weight(year.value, now)
                ELSE 0
        court == IF "court" \in DOMAIN metadata
                 THEN Get(precedent_weight, metadata["court"], 40)
                 ELSE 0
        citation_score == Len(Get(case, "citations", << >>)) * 10
        relevance_score == time + court + Min(citation_score, 100)
    IN  IF year.status = "raised" THEN year
        ELSE Returned(relevance_score)

calculate_relevance_citations_uncapped(case, now) ==
    IF "metadata" \notin DOMAIN case THEN Raised("KeyError")
    ELSE
    LET metadata == case["metadata"]
        year == IF "date" \in DOMAIN metadata
                THEN extract_year(metadata["date"], now)
                ELSE Returned(now)
        time == IF "date" \in DOMAIN metadata /\ year.status = "returned"
                THEN calculate_time_weight(year.value, now)
                ELSE 0
        court == IF "court" \in DOMAIN metadata
                 THEN Get(precedent_weight, metadata["court"], 40)
                 ELSE 0
        citation_score == Len(Get(case, "citations", << >>)) * 10
        relevance_score == time + court + citation_score
    IN  IF year.status = "raised" THEN year
        ELSE Returned(Min(relevance_score, RelevanceOne))

calculate_relevance(case, now) ==
    IF "metadata" \notin DOMAIN case THEN Raised("KeyError")
    ELSE
    LET metadata == case["metadata"]
        year == IF "date" \in DOMAIN metadata
                THEN extract_year(metadata["date"], now)
                ELSE Returned(now)
        time == IF "date" \in DOMAIN metadata /\ year.status = "returned"
                THEN calculate_time_weight(year.value, now)
                ELSE 0
        court == IF "court" \in DOMAIN metadata
                 THEN Get(precedent_weight, metadata["court"], 40)
                 ELSE 0
        citation_score == Len(Get(case, "citations", << >>)) * 10
        relevance_score == time + court + Min(citation_score, 100)
    IN  IF year.status = "raised" THEN year
        ELSE Returned(Min(relevance_score, RelevanceOne))

\* the court when it is one of the three known courts, else "Other"
determine_court_level(case) ==
    LET court == Get(Get(case, "metadata", << >>), "court", "")
    IN  IF court \in DOMAIN precedent_weight THEN court ELSE "Other"

check_subsequent_history(case) ==
    [overruled |-> FALSE, questioned |-> FALSE, followed |-> 0, cited |-> 0]

analyze_precedential_value(case) ==
    [court_level |-> determine_court_level(case),
     citation_count |-> Len(Get(case, "citations", << >>)),
     subsequent_history |-> check_subsequent_history(case)]

\* A content is its sequence of sentences; a sentence is the marker it starts
\* with and the words up to its full stop.  A pattern "<marker>.*?(?=\.)"
\* matches the sentences that start with the marker.
holding_patterns == <<"The Court holds that", "We hold that", "It is hereby held that">>
reasoning_patterns == <<"because", "therefore", "consequently">>

Matches(pattern, content) == SelectSeq(content, LAMBDA sentence : sentence.marker = pattern)

find_holdings(content) ==
    Matches(holding_patterns[1], content) \o Matches(holding_patterns[2], content)
        \o Matches(holding_patterns[3], content)

extract_reasoning(content) ==
    Matches(reasoning_patterns[1], content) \o Matches(reasoning_patterns[2], content)
        \o Matches(reasoning_patterns[3], content)

\* case_data["content"] without a default
extract_key_points(case) ==
    IF "content" \notin DOMAIN case THEN Raised("KeyError")
    ELSE Returned(find_holdings(case["content"]) \o extract_reasoning(case["content"]))

\* self._identify_citation_patterns is not a method of the class: the
\* attribute lookup fails whatever the citations are
analyze_citations(case) == Raised("AttributeError")

(***************************************************************************)
(* CaseAnalysis._predict_outcome.  probability and confidence are in       *)
(* units of 1/PredictionOne: the strength is in three-hundredths, the      *)
(* precedent score citation_count / 100, the mean halves and * 1.2 is      *)
(* * 6 / 5.  The error field carries the class of the caught exception.    *)
(***************************************************************************)
PredictionOne == 3000

predict_outcome(case, now) ==
    LET strength_score == calculate_relevance(case, now)
        citation_count == analyze_precedential_value(case).citation_count
    IN  IF strength_score.status = "raised"
        THEN Returned([error |-> strength_score.error,
                       probability |-> PredictionOne \div 2,
                       confidence |-> 0])
        ELSE Returned([probability |-> 5 * strength_score.value + 15 * citation_count,
                       confidence |-> Min(6 * strength_score.value + 18 * citation_count,
                                          PredictionOne),
                       factors |-> [strength |-> strength_score.value,
                                    precedent |-> citation_count]])

\* CaseAnalysis.analyze: the dict is built entry by entry, the first
\* exception is logged and raised again
analyze_case(case, now) ==
    LET relevance_score == calculate_relevance(case, now)
        key_points == extract_key_points(case)
        citation_analysis == analyze_citations(case)
    IN  IF relevance_score.status = "raised" THEN relevance_score
        ELSE IF key_points.status = "raised" THEN key_points
        ELSE IF citation_analysis.status = "raised" THEN citation_analysis
        ELSE Returned([relevance_score |-> relevance_score.value,
                       precedential_value |-> analyze_precedential_value(case),
                       key_points |-> key_points.value,
                       citation_analysis |-> citation_analysis.value,
                       outcome_prediction |-> predict_outcome(case, now).value])

\* inputs
MaxCitations == 11
CitationLists == { [i \in 1..n |-> "410 U.S. 113"] : n \in 0..MaxCitations }
RelevanceDates == { DateStr(ThisYear - 3, "-", 1, 1), DateStr(ThisYear - 25, "-", 5, 5),
                    DateStr(ThisYear, "-", 6, 15), DateStr(ThisYear + 1, "-", 3, 1),
                    DateStr(ThisYear + 80, "-", 2, 28), DateStr(ThisYear - 3, "-", 2, 30),
                    DateStr(ThisYear - 3, "/", 1, 1), None }
Courts == {"Supreme Court", "District Court", "Court of Appeals"}
Metadatas ==
    { Merge(dt, ct) : dt \in OptionalField("date", RelevanceDates),
                      ct \in OptionalField("court", Courts) }
Contents == { <<[marker |-> "We hold that", words |-> "the statute applies"],
                [marker |-> "because", words |-> "the duty was owed"] >> }
RelevanceCases ==
    { Merge(md, Merge(ci, co)) : md \in OptionalField("metadata", Metadatas),
                                 ci \in OptionalField("citations", CitationLists),
                                 co \in OptionalField("content", Contents) }

RelevanceInit ==
    /\ case_data \in RelevanceCases
    /\ relevance = NotCalled
    /\ precedential_value = NotCalled
    /\ prediction = NotCalled
    /\ case_analysis = NotCalled
    /\ pc = "call"
    /\ current_year \in ClockYears
    /\ IntegrationIdle
    /\ StrategyIdle
    /\ WeightIdle
    /\ DualIdle
    /\ WeaknessIdle

\* the call _calculate_relevance(case_data) ends
CalculateRelevance ==
    /\ pc = "call"
    /\ pc' = "done"
    /\ relevance' = calculate_relevance(case_data, current_year)
    /\ UNCHANGED <<case_data, precedential_value, prediction, case_analysis>>
    /\ UNCHANGED <<current_year, strategyVars, weightVars, dualVars, weaknessVars,
                   integrationVars>>

\* the caller adds one citation to the record and calls _calculate_relevance
\* on it again
CalculateRelevanceWithOneMoreCitation ==
    /\ pc = "done"
    /\ "citations" \in DOMAIN case_data
    /\ Len(case_data["citations"]) < MaxCitations
    /\ case_data' = [case_data EXCEPT !["citations"] = Append(@, "347 U.S. 483")]
    /\ relevance' = calculate_relevance(case_data', current_year)
    /\ UNCHANGED <<pc, precedential_value, prediction, case_analysis>>
    /\ UNCHANGED <<current_year, strategyVars, weightVars, dualVars, weaknessVars,
                   integrationVars>>

\* the call _analyze_precedential_value(case_data) ends
AnalyzePrecedentialValue ==
    /\ pc = "call"
    /\ pc' = "valued"
    /\ precedential_value' = Returned(analyze_precedential_value(case_data))
    /\ UNCHANGED <<case_data, relevance, prediction, case_analysis>>
    /\ UNCHANGED <<current_year, strategyVars, weightVars, dualVars, weaknessVars,
                   integrationVars>>

\* the call _predict_outcome(case_data) ends
PredictOutcome ==
    /\ pc = "call"
    /\ pc' = "predicted"
    /\ prediction' = predict_outcome(case_data, current_year)
    /\ UNCHANGED <<case_data, relevance, precedential_value, case_analysis>>
    /\ UNCHANGED <<current_year, strategyVars, weightVars, dualVars, weaknessVars,
                   integrationVars>>

\* the call analyze(case_data) ends
AnalyzeCase ==
    /\ pc = "call"
    /\ pc' = "analyzed"
    /\ case_analysis' = analyze_case(case_data, current_year)
    /\ UNCHANGED <<case_data, relevance, precedential_value, prediction>>
    /\ UNCHANGED <<current_year, strategyVars, weightVars, dualVars, weaknessVars,
                   integrationVars>>

RelevanceNext ==
    \/ CalculateRelevance
    \/ CalculateRelevanceWithOneMoreCitation
    \/ AnalyzePrecedentialValue
    \/ PredictOutcome
    \/ AnalyzeCase

SpecRelevance == RelevanceInit /\ [][RelevanceNext]_vars

\* the case has metadata whose date, when present, is a string
HasFilingYearOrNoDate(case) ==
    /\ "metadata" \in DOMAIN case
    /\ "date" \in DOMAIN case["metadata"] => case["metadata"]["date"].py = "str"

RelevanceFails(case, now) == calculate_relevance(case, now).status = "raised"

(***************************************************************************)
(* C11: _predict_outcome never raises: it returns probability =            *)
(* (relevance_score + citation_count/100)/2 with confidence =              *)
(* min(probability * 1.2, 1.0), or, when a sub-step fails, the degraded    *)
(* result with an error field, probability 0.5 and confidence 0.0; and     *)
(* such a failure does not make the enclosing analyze raise.               *)
(***************************************************************************)
C11_PredictionDegradesAnalyzeReturns ==
    /\ pc = "predicted" =>
        /\ prediction.status = "returned"
        /\ IF RelevanceFails(case_data, current_year)
           THEN /\ "error" \in DOMAIN prediction.value
                /\ 2 * prediction.value.probability = PredictionOne
                /\ prediction.value.confidence = 0
           ELSE LET strength == calculate_relevance(case_data, current_year).value
                    count == Len(Get(case_data, "citations", << >>))
                IN  /\ "error" \notin DOMAIN prediction.value
                    /\ 2 * prediction.value.probability = 10 * strength + 30 * count
                    /\ prediction.value.confidence
                         = Min((12 * prediction.value.probability) \div 10, PredictionOne)
    /\ (pc = "analyzed" /\ RelevanceFails(case_data, current_year)) =>
        case_analysis.status = "returned"

\* the date is in the metadata and strptime does not accept it
HasUnparseableDate(case) ==
    /\ "metadata" \in DOMAIN case
    /\ "date" \in DOMAIN case["metadata"]
    /\ strptime_year(case["metadata"]["date"]).status = "raised"

\* the record with its date replaced by a date of the current year
WithDateOfCurrentYear(case, now) ==
    [case EXCEPT !["metadata"] = [@ EXCEPT !["date"] = DateStr(now, "-", 1, 1)]]

(***************************************************************************)
(* C12: a date in the metadata that cannot be parsed as YYYY-MM-DD         *)
(* (malformed string, other format, or a non-string such as None) falls    *)
(* back to the current year: the relevance score is returned, and it is    *)
(* the score of the same record dated in the current year (time weight     *)
(* 1.0).                                                                   *)
(***************************************************************************)
C12_UnparseableDateFallsBack ==
    (pc = "done" /\ HasUnparseableDate(case_data)) =>
        /\ relevance.status = "returned"
        /\ relevance = calculate_relevance(WithDateOfCurrentYear(case_data, current_year),
                                           current_year)
        /\ calculate_time_weight(extract_year(case_data["metadata"]["date"],
                                              current_year).value, current_year) = 100

\* the number of citation strings of the record
CitationCount(case) == Len(Get(case, "citations", << >>))

(***************************************************************************)
(* C19: the citation sub-score min(0.1 * citation_count, 1.0) never        *)
(* decreases with more citations, is 1.0 from 10 citations on (read off    *)
(* the records with empty metadata, whose score is that sub-score over    *)
(* 3); with date and court fixed the relevance score never decreases when  *)
(* a citation is added; and _analyze_precedential_value reports            *)
(* citation_count equal to the number of citation strings.                 *)
(***************************************************************************)
C19_CitationsNeverLowerRelevance ==
    [][ /\ (pc = "done" /\ pc' = "done"
              /\ relevance.status = "returned" /\ relevance'.status = "returned") =>
            /\ CitationCount(case_data') = CitationCount(case_data) + 1
            /\ relevance'.value >= relevance.value
        /\ (pc' = "done" /\ "metadata" \in DOMAIN case_data'
              /\ case_data'["metadata"] = << >>) =>
            /\ relevance'.status = "returned"
            /\ CitationCount(case_data') < 10 =>
                   relevance'.value = 10 * CitationCount(case_data')
            /\ CitationCount(case_data') >= 10 => relevance'.value = 100
        /\ pc' = "valued" =>
            /\ precedential_value'.status = "returned"
            /\ precedential_value'.value.citation_count = CitationCount(case_data')
      ]_vars

\* a record with no date and no court that has been given its eleventh
\* citation: the sub-score is at its cap
C19_Witness ==
    /\ pc = "done"
    /\ "metadata" \in DOMAIN case_data
    /\ case_data["metadata"] = << >>
    /\ CitationCount(case_data) = 11
    /\ case_data["citations"][11] = "347 U.S. 483"
    /\ relevance = Returned(100)

(***************************************************************************)
(* DualPerspectiveAnalysis.  A text is its sequence of characters; a       *)
(* similarity is in tenths.  Every add is given a new Argument object      *)
(* whose counter_arguments list is empty.                                  *)
(***************************************************************************)
ArgumentType == {"FACTUAL", "LEGAL", "PROCEDURAL", "POLICY"}

Argument(text, type, strength, supporting_citations, counter_arguments) ==
    [text |-> text, type |-> type, strength |-> strength,
     supporting_citations |-> supporting_citations,
     counter_arguments |-> counter_arguments]

UpperCase ==
    << "A", "B", "C", "D", "E", "F", "G", "H", "I", "J", "K", "L", "M",
       "N", "O", "P", "Q", "R", "S", "T", "U", "V", "W", "X", "Y", "Z" >>
LowerCase ==
    << "a", "b", "c", "d", "e", "f", "g", "h", "i", "j", "k", "l", "m",
       "n", "o", "p", "q", "r", "s", "t", "u", "v", "w", "x", "y", "z" >>

\* str.lower()
lower(text) ==
    [i \in 1..Len(text) |->
        IF \E k \in 1..26 : UpperCase[k] = text[i]
        THEN LowerCase[CHOOSE k \in 1..26 : UpperCase[k] = text[i]]
        ELSE text[i]]

\* term in text
In(term, text) ==
    \E i \in 1..(Len(text) - Len(term) + 1) : SubSeq(text, i, i + Len(term) - 1) = term

opposing_pairs ==
    << << <<"s", "u", "p", "p", "o", "r", "t", "s">>,
          <<"o", "p", "p", "o", "s", "e", "s">> >>,
       << <<"p", "r", "o", "v", "e", "s">>,
          <<"d", "i", "s", "p", "r", "o", "v", "e", "s">> >>,
       << <<"c", "o", "n", "f", "i", "r", "m", "s">>,
          <<"c", "o", "n", "t", "r", "a", "d", "i", "c", "t", "s">> >> >>

\* the texts given to the arguments
Sp == <<" ">>
TextSupportsProves ==
    <<"I", "t">> \o Sp \o <<"S", "u", "p", "p", "o", "r", "t", "s">> \o Sp
    \o <<"a", "n", "d">> \o Sp \o <<"p", "r", "o", "v", "e", "s">>
TextOpposesDisproves ==
    <<"i", "t">> \o Sp \o <<"o", "p", "p", "o", "s", "e", "s">> \o Sp
    \o <<"a", "n", "d">> \o Sp \o <<"d", "i", "s", "p", "r", "o", "v", "e", "s">>
TextConfirms ==
    <<"l", "o", "g">> \o Sp \o <<"c", "o", "n", "f", "i", "r", "m", "s">>
TextContradictsLate ==
    <<"l", "a", "t", "e">> \o Sp \o <<"C", "O", "N", "T", "R", "A", "D", "I", "C", "T", "S">>
Texts == {TextSupportsProves, TextOpposesDisproves, TextConfirms, TextContradictsLate}

\* for each text and each pair: is the positive / negative term in text.lower()
Contained ==
    [t \in Texts |->
        [k \in 1..Len(opposing_pairs) |->
            [pos |-> In(opposing_pairs[k][1], lower(t)),
             neg |-> In(opposing_pairs[k][2], lower(t))]]]

\* the opposing-indicator test made once the similarity is high
OppositeStances(text1, text2) ==
    \E k \in 1..Len(opposing_pairs) :
        \/ Contained[text1][k].pos /\ Contained[text2][k].neg
        \/ Contained[text1][k].neg /\ Contained[text2][k].pos

\* similarity is the outcome of doc1.similarity(doc2): Returned(tenths) or Raised
arguments_conflict_no_type_check(arg1, arg2, similarity) ==
    IF similarity.status = "raised" THEN Returned(FALSE)
    ELSE IF similarity.value > 7
    THEN Returned(OppositeStances(arg1.text, arg2.text))
    ELSE Returned(FALSE)

arguments_conflict_at_threshold(arg1, arg2, similarity) ==
    IF arg1.type # arg2.type THEN Returned(FALSE)
    ELSE IF similarity.status = "raised" THEN Returned(FALSE)
    ELSE IF similarity.value >= 7
    THEN Returned(OppositeStances(arg1.text, arg2.text))
    ELSE Returned(FALSE)

arguments_conflict_uncaught(arg1, arg2, similarity) ==
    IF arg1.type # arg2.type THEN Returned(FALSE)
    ELSE IF similarity.status = "raised" THEN similarity
    ELSE IF similarity.value > 7
    THEN Returned(OppositeStances(arg1.text, arg2.text))
    ELSE Returned(FALSE)

arguments_conflict_one_direction(arg1, arg2, similarity) ==
    IF arg1.type # arg2.type THEN Returned(FALSE)
    ELSE IF similarity.status = "raised" THEN Returned(FALSE)
    ELSE IF similarity.value > 7
    THEN Returned(\E k \in 1..Len(opposing_pairs) :
                     Contained[arg1.text][k].pos /\ Contained[arg2.text][k].neg)
    ELSE Returned(FALSE)

\* the whole body is inside try / except Exception: return False
arguments_conflict(arg1, arg2, similarity) ==
    IF arg1.type # arg2.type THEN Returned(FALSE)
    ELSE IF similarity.status = "raised" THEN Returned(FALSE)
    ELSE IF similarity.value > 7
    THEN Returned(OppositeStances(arg1.text, arg2.text))
    ELSE Returned(FALSE)

\* the loop of _analyze_argument_conflicts from opposing argument i on:
\* argument is the new argument so far, linked the indices appended so far.
\* An exception leaving _arguments_conflict would end the loop.
RECURSIVE ConflictLoop(_, _, _, _, _)
ConflictLoop(argument, opposing_track, similarities, i, linked) ==
    IF i > Len(opposing_track)
    THEN [status |-> "returned", argument |-> argument,
          opposing_track |-> opposing_track, linked |-> linked, compared |-> i - 1]
    ELSE LET conflict == arguments_conflict(argument, opposing_track[i], similarities[i])
         IN  IF conflict.status = "raised"
             THEN [status |-> "raised", argument |-> argument,
                   opposing_track |-> opposing_track, linked |-> linked, compared |-> i - 1]
             ELSE IF conflict.value
             THEN ConflictLoop(
                    [argument EXCEPT !.counter_arguments = Append(@, opposing_track[i].text)],
                    opposing_track, similarities, i + 1, linked \cup {i})
             ELSE ConflictLoop(argument, opposing_track, similarities, i + 1, linked)

RECURSIVE LinkBack(_, _, _, _)
\* also records the new text on every linked opposing argument
LinkBack(opposing_track, linked, text, i) ==
    IF i > Len(opposing_track) THEN opposing_track
    ELSE LinkBack(IF i \in linked
                  THEN [opposing_track EXCEPT ![i].counter_arguments = Append(@, text)]
                  ELSE opposing_track,
                  linked, text, i + 1)

analyze_argument_conflicts_both_ways(argument, opposing_track, similarities) ==
    LET r == ConflictLoop(argument, opposing_track, similarities, 1, {})
    IN  [r EXCEPT !.opposing_track = LinkBack(opposing_track, r.linked, argument.text, 1)]

\* the counter arguments listed newest first
analyze_argument_conflicts_newest_first(argument, opposing_track, similarities) ==
    LET r == ConflictLoop(argument, opposing_track, similarities, 1, {})
        found == r.argument.counter_arguments
    IN  [r EXCEPT !.argument.counter_arguments =
                      [i \in 1..Len(found) |-> found[Len(found) + 1 - i]]]

analyze_argument_conflicts(argument, opposing_track, similarities) ==
    ConflictLoop(argument, opposing_track, similarities, 1, {})

RECURSIVE TotalStrength(_, _)
\* sum(arg.strength for arg in arguments) from argument i on
TotalStrength(track, i) ==
    IF i > Len(track) THEN 0 ELSE track[i].strength + TotalStrength(track, i + 1)

\* the mean strength in tenths as the fraction num / den
calculate_track_strength(track) ==
    IF track = << >> THEN [num |-> 0, den |-> 1]
    ELSE [num |-> TotalStrength(track, 1), den |-> Len(track)]

get_argument_strength_analysis(prosecution, defense) ==
    [prosecution |-> calculate_track_strength(prosecution),
     defense |-> calculate_track_strength(defense)]

get_summary_counting_both_tracks(prosecution, defense, shared, disputed) ==
    [prosecution_arguments |-> Len(prosecution) + Len(defense),
     defense_arguments |-> Len(prosecution) + Len(defense),
     shared_facts |-> Len(shared),
     disputed_facts |-> Cardinality(DOMAIN disputed),
     strength_analysis |-> get_argument_strength_analysis(prosecution, defense)]

get_summary(prosecution, defense, shared, disputed) ==
    [prosecution_arguments |-> Len(prosecution),
     defense_arguments |-> Len(defense),
     shared_facts |-> Len(shared),
     disputed_facts |-> Cardinality(DOMAIN disputed),
     strength_analysis |-> get_argument_strength_analysis(prosecution, defense)]

\* inputs
ArgumentTypes == {"FACTUAL", "LEGAL"}
ArgumentStrengths == {8}
SimilarityOutcomes == { Returned(v) : v \in {3, 7, 8} } \cup { Raised("Exception") }

\* the number of add calls made on one DualPerspectiveAnalysis
MaxArguments == 3
CallsMade == add_calls.prosecution + add_calls.defense + add_calls.shared + add_calls.disputed

SharedFacts == {"the contract was signed"}
DisputedFacts == {"the signature is genuine"}
ProsecutionViews == {"forged"}
DefenseViews == {"genuine"}

NewArguments ==
    { Argument(t, ty, st, << >>, << >>) :
        t \in Texts, ty \in ArgumentTypes, st \in ArgumentStrengths }

\* what doc1.similarity(doc2) would answer for each opposing argument
SimilaritiesFor(opposing_track) == [1..Len(opposing_track) -> SimilarityOutcomes]

\* the similarity calls of one add as the history keeps them: the comparison
\* with an opposing argument of another type returns before the call
Called(argument, opposing_track, similarities) ==
    [i \in 1..Len(opposing_track) |->
        IF argument.type # opposing_track[i].type THEN NotCalled ELSE similarities[i]]

LinksOf(side, index, r, similarities) ==
    { [side |-> side, index |-> index, opposing |-> i,
       similarity |-> similarities[i]] : i \in r.linked }

DualInit ==
    /\ DualIdle
    /\ pc = "ready"
    /\ current_year \in ClockYears
    /\ IntegrationIdle
    /\ StrategyIdle
    /\ WeightIdle
    /\ RelevanceIdle
    /\ WeaknessIdle

AddProsecutionArgument ==
    /\ pc = "ready"
    /\ CallsMade < MaxArguments
    /\ add_calls' = [add_calls EXCEPT !.prosecution = @ + 1]
    /\ \E argument \in NewArguments :
       \E similarities \in SimilaritiesFor(defense_track) :
         LET r == analyze_argument_conflicts(argument, defense_track, similarities)
         IN  /\ prosecution_track' = Append(prosecution_track, r.argument)
             /\ defense_track' = r.opposing_track
             /\ links' = links \cup LinksOf("prosecution", Len(prosecution_track) + 1,
                                              r, similarities)
             /\ last_add' = [status |-> r.status, side |-> "prosecution",
                             similarities |-> Called(argument, defense_track, similarities),
                             compared |-> r.compared]
    /\ UNCHANGED <<shared_facts, disputed_facts, summary>>
    /\ UNCHANGED <<strategyVars, current_year, weightVars, relevanceVars, weaknessVars, pc,
                   integrationVars>>

AddDefenseArgument ==
    /\ pc = "ready"
    /\ CallsMade < MaxArguments
    /\ add_calls' = [add_calls EXCEPT !.defense = @ + 1]
    /\ \E argument \in NewArguments :
       \E similarities \in SimilaritiesFor(prosecution_track) :
         LET r == analyze_argument_conflicts(argument, prosecution_track, similarities)
         IN  /\ defense_track' = Append(defense_track, r.argument)
             /\ prosecution_track' = r.opposing_track
             /\ links' = links \cup LinksOf("defense", Len(defense_track) + 1,
                                              r, similarities)
             /\ last_add' = [status |-> r.status, side |-> "defense",
                             similarities |-> Called(argument, prosecution_track, similarities),
                             compared |-> r.compared]
    /\ UNCHANGED <<shared_facts, disputed_facts, summary>>
    /\ UNCHANGED <<strategyVars, current_year, weightVars, relevanceVars, weaknessVars, pc,
                   integrationVars>>

AddSharedFact ==
    /\ pc = "ready"
    /\ CallsMade < MaxArguments
    /\ \E fact \in SharedFacts : shared_facts' = Append(shared_facts, fact)
    /\ add_calls' = [add_calls EXCEPT !.shared = @ + 1]
    /\ UNCHANGED <<prosecution_track, defense_track, disputed_facts, summary, links, last_add>>
    /\ UNCHANGED <<strategyVars, current_year, weightVars, relevanceVars, weaknessVars, pc,
                   integrationVars>>

\* self.disputed_facts[fact] = {...}: a second call for the same fact
\* replaces the entry
AddDisputedFact ==
    /\ pc = "ready"
    /\ CallsMade < MaxArguments
    /\ \E fact \in DisputedFacts, prosecution_view \in ProsecutionViews,
          defense_view \in DefenseViews :
          disputed_facts' =
              [f \in DOMAIN disputed_facts \cup {fact} |->
                  IF f = fact
                  THEN [prosecution |-> prosecution_view, defense |-> defense_view]
                  ELSE disputed_facts[f]]
    /\ add_calls' = [add_calls EXCEPT !.disputed = @ + 1]
    /\ UNCHANGED <<prosecution_track, defense_track, shared_facts, summary, links, last_add>>
    /\ UNCHANGED <<strategyVars, current_year, weightVars, relevanceVars, weaknessVars, pc,
                   integrationVars>>

\* get_summary is called once the arguments and facts are in
GetSummary ==
    /\ pc = "ready"
    /\ pc' = "summarized"
    /\ summary' = Returned(get_summary(prosecution_track, defense_track,
                                       shared_facts, disputed_facts))
    /\ UNCHANGED <<prosecution_track, defense_track, shared_facts, disputed_facts,
                   add_calls, links, last_add>>
    /\ UNCHANGED <<strategyVars, current_year, weightVars, relevanceVars, weaknessVars,
                   integrationVars>>

DualNext ==
    \/ AddProsecutionArgument
    \/ AddDefenseArgument
    \/ AddSharedFact
    \/ AddDisputedFact
    \/ GetSummary

Spec == DualInit /\ [][DualNext]_vars

Track(side) == IF side = "prosecution" THEN prosecution_track ELSE defense_track
OpposingTrack(side) == IF side = "prosecution" THEN defense_track ELSE prosecution_track
Sides == {"prosecution", "defense"}

\* the opposing arguments whose comparison appended to argument index of side
LinkedTo(side, index) ==
    { l.opposing : l \in { x \in links : x.side = side /\ x.index = index } }

RECURSIVE TextsOf(_, _, _)
\* the texts of the arguments of track at the indices in set, from index i on
TextsOf(track, set, i) ==
    IF i > Len(track) THEN << >>
    ELSE (IF i \in set THEN << track[i].text >> ELSE << >>) \o TextsOf(track, set, i + 1)

(***************************************************************************)
(* C5: two arguments of different ArgumentType never produce a conflict    *)
(* link: every entry of every counter_arguments list was appended by a     *)
(* comparison with an opposing argument of the same type.                  *)
(***************************************************************************)
C5_LinksAreTypeScoped ==
    /\ \A l \in links :
          Track(l.side)[l.index].type = OpposingTrack(l.side)[l.opposing].type
    /\ \A side \in Sides : \A i \in 1..Len(Track(side)) :
          Track(side)[i].counter_arguments
            = TextsOf(OpposingTrack(side), LinkedTo(side, i), 1)

\* a FACTUAL and a LEGAL argument with opposite stances face each other, and
\* neither has a counter argument
C5_Witness ==
    /\ Len(prosecution_track) = 1
    /\ Len(defense_track) = 1
    /\ prosecution_track[1].type # defense_track[1].type
    /\ OppositeStances(prosecution_track[1].text, defense_track[1].text)
    /\ prosecution_track[1].counter_arguments = << >>
    /\ defense_track[1].counter_arguments = << >>

(***************************************************************************)
(* C6: a pair of opposing arguments whose similarity is at most 0.7        *)
(* (exactly 0.7 included) never produces a conflict link, even when their  *)
(* texts contain an opposing lexical pair.                                 *)
(***************************************************************************)
C6_LinksNeedHighSimilarity ==
    /\ \A l \in links : l.similarity.status = "returned" /\ l.similarity.value > 7
    /\ last_add.status # "none" =>
          \A i \in 1..Len(OpposingTrack(last_add.side)) :
              (/\ last_add.similarities[i].status = "returned"
               /\ last_add.similarities[i].value <= 7)
              => i \notin LinkedTo(last_add.side, Len(Track(last_add.side)))

\* the latest add compared two same-type arguments with opposite stances at
\* similarity exactly 0.7 and recorded nothing
C6_Witness ==
    /\ last_add.status = "returned"
    /\ Len(OpposingTrack(last_add.side)) = 1
    /\ last_add.similarities[1] = Returned(7)
    /\ OppositeStances(Track(last_add.side)[Len(Track(last_add.side))].text,
                       OpposingTrack(last_add.side)[1].text)
    /\ Track(last_add.side)[Len(Track(last_add.side))].counter_arguments = << >>

(***************************************************************************)
(* C9: an add only ever changes the counter_arguments of the argument      *)
(* being added: the counter_arguments of every previously added argument,  *)
(* on either track, are the same after the add as before it.               *)
(***************************************************************************)
C9_EarlierArgumentsUntouched ==
    [][ /\ \A i \in 1..Len(prosecution_track) :
              /\ i <= Len(prosecution_track')
              /\ prosecution_track'[i].counter_arguments
                   = prosecution_track[i].counter_arguments
        /\ \A i \in 1..Len(defense_track) :
              /\ i <= Len(defense_track')
              /\ defense_track'[i].counter_arguments
                   = defense_track[i].counter_arguments ]_vars

\* a later argument recorded an earlier opposing argument as its counter
\* argument, and that earlier argument still has none
C9_Witness ==
    \E l \in links :
        /\ Track(l.side)[l.index].counter_arguments # << >>
        /\ OpposingTrack(l.side)[l.opposing].counter_arguments = << >>
        /\ OppositeStances(Track(l.side)[l.index].text,
                           OpposingTrack(l.side)[l.opposing].text)

(***************************************************************************)
(* C10: a failure of the similarity computation is caught inside the       *)
(* comparison: the pair is treated as non-conflicting, the add completes   *)
(* without raising, the new argument is in its track, and the remaining    *)
(* opposing arguments are still compared.                                  *)
(***************************************************************************)
C10_SimilarityFailureIsContained ==
    last_add.status # "none" =>
        /\ last_add.status = "returned"
        /\ Len(Track(last_add.side)) >= 1
        /\ last_add.compared = Len(OpposingTrack(last_add.side))
        /\ \A i \in 1..Len(OpposingTrack(last_add.side)) :
              last_add.similarities[i].status = "raised"
              => i \notin LinkedTo(last_add.side, Len(Track(last_add.side)))

\* the similarity call failed for the first opposing argument and the second
\* one was still compared and recorded as a counter argument
C10_Witness ==
    /\ last_add.status = "returned"
    /\ Len(OpposingTrack(last_add.side)) = 2
    /\ last_add.similarities[1].status = "raised"
    /\ LinkedTo(last_add.side, Len(Track(last_add.side))) = {2}
    /\ Track(last_add.side)[Len(Track(last_add.side))].counter_arguments
         = << OpposingTrack(last_add.side)[2].text >>

\* the argument added by the latest add
LastAdded == Track(last_add.side)[Len(Track(last_add.side))]

\* for pair k, one text contains the positive term and the other the
\* negative term, after lower-casing
PairMatches(k, text1, text2) ==
    \/ Contained[text1][k].pos /\ Contained[text2][k].neg
    \/ Contained[text1][k].neg /\ Contained[text2][k].pos

(***************************************************************************)
(* C21: when the newly added argument and an opposing-track argument have  *)
(* the same type, similarity strictly greater than 0.7, and for at least   *)
(* one pair one lower-cased text contains the positive term and the other  *)
(* the negative term (either direction), the opposing text is appended to  *)
(* the new argument's counter_arguments, once per opposing argument even   *)
(* if several pairs match.                                                 *)
(***************************************************************************)
C21_ConflictIsRecordedOnce ==
    last_add.status # "none" =>
        /\ \A i \in 1..Len(OpposingTrack(last_add.side)) :
              (/\ OpposingTrack(last_add.side)[i].type = LastAdded.type
               /\ last_add.similarities[i].status = "returned"
               /\ last_add.similarities[i].value > 7
               /\ \E k \in 1..Len(opposing_pairs) :
                     PairMatches(k, LastAdded.text, OpposingTrack(last_add.side)[i].text))
              => i \in LinkedTo(last_add.side, Len(Track(last_add.side)))
        /\ Len(LastAdded.counter_arguments)
             = Cardinality(LinkedTo(last_add.side, Len(Track(last_add.side))))
        /\ LastAdded.counter_arguments
             = TextsOf(OpposingTrack(last_add.side),
                       LinkedTo(last_add.side, Len(Track(last_add.side))), 1)

\* the new text has the negative terms of two pairs, the opposing text their
\* positive terms, and the opposing text was recorded once
C21_Witness ==
    /\ last_add.status = "returned"
    /\ Len(OpposingTrack(last_add.side)) = 1
    /\ LastAdded.text = TextOpposesDisproves
    /\ OpposingTrack(last_add.side)[1].text = TextSupportsProves
    /\ PairMatches(1, LastAdded.text, TextSupportsProves)
    /\ PairMatches(2, LastAdded.text, TextSupportsProves)
    /\ last_add.similarities[1] = Returned(8)
    /\ LastAdded.counter_arguments = << TextSupportsProves >>

(***************************************************************************)
(* C25: the entries appended to an argument's counter_arguments are texts  *)
(* of arguments that were in the opposing track before it was added,       *)
(* listed in the opposing track's insertion order; the add compares the    *)
(* new argument with exactly those arguments, not with its own track,      *)
(* itself, or arguments added later (which never change it, C9).           *)
(***************************************************************************)
C25_CounterArgumentsAreEarlierOpposing ==
    [][ \A side \in Sides :
          Len(Track(side)') = Len(Track(side)) + 1 =>
              /\ OpposingTrack(side)' = OpposingTrack(side)
              /\ last_add'.side = side
              /\ last_add'.compared = Len(OpposingTrack(side))
              /\ DOMAIN last_add'.similarities = 1..Len(OpposingTrack(side))
              /\ \E chosen \in SUBSET (1..Len(OpposingTrack(side))) :
                    Track(side)'[Len(Track(side)')].counter_arguments
                      = TextsOf(OpposingTrack(side), chosen, 1)
              /\ \A l \in links' \ links :
                    /\ l.side = side
                    /\ l.index = Len(Track(side)')
                    /\ l.opposing \in 1..Len(OpposingTrack(side)) ]_vars

\* an argument added after two opposing arguments lists both, the earlier
\* one first, and their texts differ
C25_Witness ==
    /\ last_add.status = "returned"
    /\ Len(OpposingTrack(last_add.side)) = 2
    /\ OpposingTrack(last_add.side)[1].text # OpposingTrack(last_add.side)[2].text
    /\ LastAdded.counter_arguments
         = << OpposingTrack(last_add.side)[1].text, OpposingTrack(last_add.side)[2].text >>

\* term is a word of text: it occurs between spaces or the ends of the text
HasWord(term, text) ==
    \E i \in 1..(Len(text) - Len(term) + 1) :
        /\ SubSeq(text, i, i + Len(term) - 1) = term
        /\ i = 1 \/ text[i - 1] = " "
        /\ i + Len(term) - 1 = Len(text) \/ text[i + Len(term)] = " "

\* for each text and each pair: is the positive / negative term a word of
\* text.lower()
UsesWord ==
    [t \in Texts |->
        [k \in 1..Len(opposing_pairs) |->
            [pos |-> HasWord(opposing_pairs[k][1], lower(t)),
             neg |-> HasWord(opposing_pairs[k][2], lower(t))]]]

\* no pair has its positive word in one text and its negative word in the
\* other, and for some pair both texts use the same term only
SameStanceOnly(text1, text2) ==
    /\ \A k \in 1..Len(opposing_pairs) :
          /\ ~(UsesWord[text1][k].pos /\ UsesWord[text2][k].neg)
          /\ ~(UsesWord[text1][k].neg /\ UsesWord[text2][k].pos)
    /\ \E k \in 1..Len(opposing_pairs) :
          \/ /\ UsesWord[text1][k].neg /\ UsesWord[text2][k].neg
             /\ ~UsesWord[text1][k].pos /\ ~UsesWord[text2][k].pos
          \/ /\ UsesWord[text1][k].pos /\ UsesWord[text2][k].pos
             /\ ~UsesWord[text1][k].neg /\ ~UsesWord[text2][k].neg

(***************************************************************************)
(* C27: a conflict link requires opposite stances: two arguments that both *)
(* use only the negative term of a pair (both texts have the word          *)
(* "disproves", neither has the word "proves"), or both only the positive  *)
(* term, are never linked.                                                 *)
(***************************************************************************)
C27_LinksNeedOppositeStances ==
    \A l \in links :
        ~SameStanceOnly(Track(l.side)[l.index].text,
                        OpposingTrack(l.side)[l.opposing].text)

(***************************************************************************)
(* C24: the two tracks are append-only and independent: every call of      *)
(* add_prosecution_argument, add_defense_argument, add_shared_fact or      *)
(* add_disputed_fact leaves each track as it was or appends the added      *)
(* argument to the track of its own side, so that each track is the        *)
(* sequence of arguments added to that side in call order; and             *)
(* get_summary reports for each side the number of add calls made for it.  *)
(***************************************************************************)
C24_TracksAppendOnly ==
    [][ /\ \A side \in Sides :
              \/ /\ Track(side)' = Track(side)
                 /\ add_calls'[side] = add_calls[side]
              \/ /\ Len(Track(side)') = Len(Track(side)) + 1
                 /\ SubSeq(Track(side)', 1, Len(Track(side))) = Track(side)
                 /\ OpposingTrack(side)' = OpposingTrack(side)
                 /\ add_calls'[side] = add_calls[side] + 1
                 /\ last_add'.side = side
        /\ \A side \in Sides : Len(Track(side)') = add_calls'[side]
        /\ Len(shared_facts') = add_calls'.shared
        /\ pc' = "summarized" =>
              /\ summary'.status = "returned"
              /\ summary'.value.prosecution_arguments = add_calls'.prosecution
              /\ summary'.value.defense_arguments = add_calls'.defense
      ]_vars

\* two prosecution arguments, a shared fact in between or around them, and a
\* summary that counts two and none
C24_Witness ==
    /\ pc = "summarized"
    /\ add_calls = [prosecution |-> 2, defense |-> 0, shared |-> 1, disputed |-> 0]
    /\ Len(prosecution_track) = 2
    /\ defense_track = << >>
    /\ summary.value.prosecution_arguments = 2
    /\ summary.value.defense_arguments = 0
    /\ summary.value.shared_facts = 1

(***************************************************************************)
(* WeaknessAnalysis.  A severity is in tenths.  The text of an argument is *)
(* the sequence of its sentences as doc.sents yields them (none for the    *)
(* empty string); a sentence is the set of catalogue phrases it contains.  *)
(***************************************************************************)
Weakness(description, severity, type) ==
    [description |-> description, severity |-> severity, type |-> type]

logical_flaws == << "circular reasoning", "false equivalence", "hasty generalization" >>

NoError == "None"

required_fields == << "text", "type", "evidence" >>

\* the message for the first missing required field, or None
validate_argument(argument) ==
    IF \E k \in 1..Len(required_fields) : required_fields[k] \notin DOMAIN argument
    THEN LET first == CHOOSE k \in 1..Len(required_fields) :
                         /\ required_fields[k] \notin DOMAIN argument
                         /\ \A j \in 1..(k - 1) : required_fields[j] \in DOMAIN argument
         IN  "Missing required field: " \o required_fields[first]
    ELSE NoError

analyze_evidence(argument) ==
    (IF "evidence" \notin DOMAIN argument \/ argument["evidence"] = << >>
     THEN << Weakness("Lack of supporting evidence", 8, "evidence_gap") >>
     ELSE << >>)
    \o
    (IF "evidence_quality" \in DOMAIN argument /\ argument["evidence_quality"] < 6
     THEN << Weakness("Low quality or unreliable evidence", 7, "evidence_quality") >>
     ELSE << >>)

\* for fallacy_type, patterns in self.weakness_patterns["logical_flaws"]:
\* each item is a phrase, and unpacking a str into two names raises
\* ValueError unless it has exactly two characters.  The loop body is first
\* run for the first sentence and the first phrase.
analyze_logic(argument) ==
    LET sents == Get(argument, "text", << >>)
    IN  IF sents = << >> THEN Returned(<< >>)
        ELSE IF Len(logical_flaws[1]) # 2 THEN Raised("ValueError")
        ELSE Returned(<< >>)

RECURSIVE PrecedentLoop(_, _)
PrecedentLoop(precedents, i) ==
    IF i > Len(precedents) THEN << >>
    ELSE (IF Get(precedents[i], "distinguishable", FALSE)
          THEN << Weakness("Distinguishable precedent", 5, "precedent_weakness") >>
          ELSE << >>)
         \o PrecedentLoop(precedents, i + 1)

analyze_precedents(argument) ==
    IF "precedents" \in DOMAIN argument
    THEN PrecedentLoop(argument["precedents"], 1)
    ELSE << >>

prioritize_weaknesses(ws) ==
    SortedReverse(ws, [i \in 1..Len(ws) |-> ws[i].severity])

\* the for loop of analyze from argument i on; found is the list so far
RECURSIVE AnalyzeLoop(_, _, _)
AnalyzeLoop(args, i, found) ==
    IF i > Len(args) THEN [status |-> "returned", emitted |-> found]
    ELSE IF validate_argument(args[i]) # NoError
    THEN AnalyzeLoop(args, i + 1, found)
    ELSE LET evidence_weaknesses == analyze_evidence(args[i])
             logical_weaknesses == analyze_logic(args[i])
             precedent_weaknesses == analyze_precedents(args[i])
         IN  IF logical_weaknesses.status = "raised"
             THEN [status |-> "raised", emitted |-> found \o evidence_weaknesses]
             ELSE AnalyzeLoop(args, i + 1,
                              found \o evidence_weaknesses \o logical_weaknesses.value
                                    \o precedent_weaknesses)

\* except Exception: return []
analyze(args) ==
    LET r == AnalyzeLoop(args, 1, << >>)
    IN  [emitted |-> r.emitted,
         result |-> IF r.status = "raised" THEN << >> ELSE prioritize_weaknesses(r.emitted)]

\* inputs
MaxAnalyzed == 2
ArgumentTexts == { << >>, << {"circular reasoning"}, {} >> }
EvidenceLists == { << >>, << "Document A", "Witness B" >> }
PrecedentLists == { << [name |-> "Roe"], [distinguishable |-> TRUE] >> }
ArgumentDicts ==
    { Merge(tx, Merge(ty, Merge(ev, Merge(eq, pr)))) :
        tx \in OptionalField("text", ArgumentTexts),
        ty \in OptionalField("type", {"factual"}),
        ev \in OptionalField("evidence", EvidenceLists),
        eq \in OptionalField("evidence_quality", {5}),
        pr \in OptionalField("precedents", PrecedentLists) }
ArgumentLists == UNION { [1..n -> ArgumentDicts] : n \in 0..MaxAnalyzed }

WeaknessInit ==
    /\ arguments \in ArgumentLists
    /\ weaknesses = << >>
    /\ emitted = << >>
    /\ logic = NotCalled
    /\ pc = "call"
    /\ current_year \in ClockYears
    /\ IntegrationIdle
    /\ StrategyIdle
    /\ WeightIdle
    /\ RelevanceIdle
    /\ DualIdle

\* the call analyze(arguments) returns
Analyze ==
    /\ pc = "call"
    /\ pc' = "done"
    /\ weaknesses' = analyze(arguments).result
    /\ emitted' = analyze(arguments).emitted
    /\ UNCHANGED <<arguments, logic>>
    /\ UNCHANGED <<current_year, strategyVars, weightVars, relevanceVars, dualVars,
                   integrationVars>>

\* the call _analyze_logic(arguments[0]) ends
AnalyzeLogic ==
    /\ pc = "call"
    /\ arguments # << >>
    /\ pc' = "checked"
    /\ logic' = analyze_logic(arguments[1])
    /\ UNCHANGED <<arguments, weaknesses, emitted>>
    /\ UNCHANGED <<current_year, strategyVars, weightVars, relevanceVars, dualVars,
                   integrationVars>>

WeaknessNext == Analyze \/ AnalyzeLogic

SpecWeakness == WeaknessInit /\ [][WeaknessNext]_vars

HasNoEvidence(argument) ==
    "evidence" \notin DOMAIN argument \/ argument["evidence"] = << >>

(***************************************************************************)
(* C7: each argument of the list that has no evidence (key missing, or     *)
(* empty list) contributes to the result of analyze a Weakness of type     *)
(* "evidence_gap" with severity 0.8.                                       *)
(***************************************************************************)
C7_EvidenceGapReported ==
    pc = "done" =>
        Cardinality({ i \in 1..Len(weaknesses) :
                        weaknesses[i].type = "evidence_gap" /\ weaknesses[i].severity = 8 })
        >= Cardinality({ i \in 1..Len(arguments) : HasNoEvidence(arguments[i]) })

SeveritiesIn(ws) == { ws[i].severity : i \in 1..Len(ws) }
WithSeverity(ws, v) == SelectSeq(ws, LAMBDA w : w.severity = v)

(***************************************************************************)
(* C8: the list returned by analyze contains every Weakness emitted for    *)
(* every valid argument, ordered by severity descending, weaknesses of     *)
(* equal severity keeping their emission order.                            *)
(***************************************************************************)
C8_AllEmittedSortedStable ==
    pc = "done" =>
        /\ Len(weaknesses) = Len(emitted)
        /\ \A i \in 1..(Len(weaknesses) - 1) :
              weaknesses[i].severity >= weaknesses[i + 1].severity
        /\ \A v \in SeveritiesIn(emitted) :
              WithSeverity(weaknesses, v) = WithSeverity(emitted, v)

\* the argument has the three required fields
IsValidArgument(argument) == {"text", "type", "evidence"} \subseteq DOMAIN argument

(***************************************************************************)
(* C17: analyze skips an argument that lacks one of the required fields    *)
(* text, type, evidence without failing: the call returns, and the         *)
(* evidence and precedent weaknesses of the valid arguments of the same    *)
(* list, before and after the invalid one, are in the result.              *)
(***************************************************************************)
C17_InvalidArgumentSkipped ==
    (pc = "done" /\ \E i \in 1..Len(arguments) : ~IsValidArgument(arguments[i])) =>
        \A i \in 1..Len(arguments) :
            IsValidArgument(arguments[i]) =>
                LET expected == analyze_evidence(arguments[i])
                                  \o analyze_precedents(arguments[i])
                IN  \A k \in 1..Len(expected) :
                        \E j \in 1..Len(weaknesses) : weaknesses[j] = expected[k]

\* the sentence / marker matches of the text of the argument
MarkerMatches(argument) ==
    LET sents == Get(argument, "text", << >>)
    IN  { <<i, m>> \in (1..Len(sents)) \X { logical_flaws[k] : k \in 1..Len(logical_flaws) } :
            m \in sents[i] }

(***************************************************************************)
(* C22: _analyze_logic returns a list for every argument (it never         *)
(* raises): one Weakness of type "logical_flaw" with severity 0.6 for each *)
(* sentence / marker match against the catalogue, and an empty list when   *)
(* no marker occurs in the text.                                           *)
(***************************************************************************)
C22_LogicReturnsAList ==
    pc = "checked" =>
        /\ logic.status = "returned"
        /\ Len(logic.value) = Cardinality(MarkerMatches(arguments[1]))
        /\ \A i \in 1..Len(logic.value) :
              logic.value[i].type = "logical_flaw" /\ logic.value[i].severity = 6

\* the checks of the argument end without an exception
CheckSucceeds(argument) == analyze_logic(argument).status = "returned"

(***************************************************************************)
(* C23: within one analyze call, a failure raised while checking one       *)
(* argument does not abort the others: the weaknesses already emitted for  *)
(* earlier arguments and those of the later arguments are in the returned  *)
(* list.                                                                   *)
(***************************************************************************)
C23_FailureKeepsSiblings ==
    (pc = "done" /\ \E i \in 1..Len(arguments) :
                        IsValidArgument(arguments[i]) /\ ~CheckSucceeds(arguments[i])) =>
        /\ \A k \in 1..Len(emitted) :
              \E j \in 1..Len(weaknesses) : weaknesses[j] = emitted[k]
        /\ \A i \in 1..Len(arguments) :
              (IsValidArgument(arguments[i]) /\ CheckSucceeds(arguments[i])) =>
                  LET expected == analyze_evidence(arguments[i])
                                    \o analyze_logic(arguments[i]).value
                                    \o analyze_precedents(arguments[i])
                  IN  \A k \in 1..Len(expected) :
                          \E j \in 1..Len(weaknesses) : weaknesses[j] = expected[k]

(***************************************************************************)
(* LegalAnalysisIntegrator (integration.py)                                *)
(***************************************************************************)

\* DualPerspectiveAnalysis defines no process_arguments method: the call
\* self.dual_perspective.process_arguments(...) fails on the attribute lookup
process_arguments(key_points) == Raised("AttributeError")

\* process_case, from the value scraper.scrape returned on; every exception
\* is logged and re-raised (except Exception: ... raise), so the outcome of
\* the call is the outcome of the first stage that raises.  The integrator's
\* own DualPerspectiveAnalysis is the one built in __init__: nothing adds to
\* its tracks.  WeaknessAnalysis.analyze receives the key points, which are
\* strings: "text" not in <a string> is a substring test, false for the
\* sentences of Contents, so validate_argument rejects each of them as it
\* rejects a dict without the field.
process_case(scraped, now) ==
    LET analysed == analyze_case(scraped, now)
    IN  IF scraped = None
        THEN [outcome |-> Raised("ValueError"), stages |-> <<"scrape">>]
        ELSE IF analysed.status = "raised"
        THEN [outcome |-> analysed, stages |-> <<"scrape", "case_analysis">>]
        ELSE LET weaknesses_ == analyze(analysed.value.key_points).result
                 strategies_ == suggest(Merge(analysed.value,
                                              [weaknesses |-> weaknesses_]))
                 processed == process_arguments(analysed.value.key_points)
                 ran == <<"scrape", "case_analysis", "weaknesses", "strategies",
                          "dual_perspective">>
             IN  IF processed.status = "raised"
                 THEN [outcome |-> processed, stages |-> ran]
                 ELSE [outcome |-> Returned(
                           [case_analysis |-> analysed.value,
                            weaknesses |-> weaknesses_,
                            strategies |-> strategies_,
                            dual_perspective |-> get_summary(<< >>, << >>, << >>, << >>)]),
                       stages |-> ran]

\* inputs: LegalScraper.scrape returns None on any failure, else a dict with
\* the four keys metadata, content, citations and sections; _extract_metadata
\* always sets title, date, court and case_number, each to the stripped text
\* of its element or to None.  The courts drawn here are the named ones.
ScrapedCases ==
    { [metadata |-> [title |-> None, date |-> dt, court |-> ct, case_number |-> None],
       content |-> co, citations |-> ci, sections |-> << >>] :
        dt \in RelevanceDates, ct \in Courts, co \in Contents, ci \in CitationLists }
ScrapeResults == {None} \cup ScrapedCases

IntegrationInit ==
    /\ scrape_result \in ScrapeResults
    /\ report = NotCalled
    /\ stages = << >>
    /\ pc = "call"
    /\ current_year \in ClockYears
    /\ StrategyIdle
    /\ WeightIdle
    /\ RelevanceIdle
    /\ DualIdle
    /\ WeaknessIdle

\* the call process_case(case_url) ends
ProcessCase ==
    /\ pc = "call"
    /\ pc' = "processed"
    /\ report' = process_case(scrape_result, current_year).outcome
    /\ stages' = process_case(scrape_result, current_year).stages
    /\ UNCHANGED scrape_result
    /\ UNCHANGED <<current_year, strategyVars, weightVars, relevanceVars, dualVars,
                   weaknessVars>>

IntegrationNext == ProcessCase
SpecIntegration == IntegrationInit /\ [][IntegrationNext]_vars

=============================================================================
